---- MODULE Spec2Model ----
(***************************************************************************)
(* Model of the Backtest repository's simulation core:                     *)
(*   - Portfolio (src/backtest/portfolio.py): target weights, rebalance    *)
(*     frequency and the stored last-rebalance date, with should_rebalance *)
(*   - run_backtest (src/backtest/engine.py): the day-by-day loop over the *)
(*     rows of the price table.                                            *)
(*                                                                         *)
(* Numbers.  The code computes with Python floats; the model computes with *)
(* exact rationals <<numerator, denominator>> in lowest terms with a       *)
(* positive denominator, so two equal amounts are equal tuples.  Float     *)
(* rounding is not modelled.                                               *)
(*                                                                         *)
(* Dates.  A pandas Timestamp is a record [year, month, day]; NoDate is    *)
(* Python's None for a date, 0 is None for last_month / last_year.         *)
(***************************************************************************)
EXTENDS Integers, Sequences, FiniteSets, TLC

VARIABLES
    \* ---- Portfolio object (portfolio.py) ----
    target_weights,         \* self.target_weights: ticker -> weight
    rebalance_frequency,    \* self.rebalance_frequency ("None" is Python's None)
    last_rebalance_date,    \* self._last_rebalance_date (NoDate is None)
    \* ---- arguments of run_backtest (engine.py) ----
    data,                   \* rows of the price table yielded by data.iterrows() so far
    initial_investment,
    monthly_topup,
    annual_increase,
    earlier_runs,           \* what the earlier calls of run_backtest with these arguments gave
    \* ---- locals of run_backtest ----
    holdings,
    cash,
    current_monthly_topup,
    portfolio_history,
    last_month,
    last_year,
    is_rebalance_day,       \* what should_rebalance returned on the latest row
    total_value,            \* total_value of the latest deployment (line 55)
    pc,                     \* "loop" | "done" | "raised"
    result,                 \* what run_backtest returned: <<result_df, holdings, cash>>
    \* ---- log of the should_rebalance calls made on the Portfolio ----
    call_log,               \* sequence of [date, ret]
    \* ---- Portfolio.__init__ called on its own (portfolio.py) ----
    ctor_weights,           \* the target_weights argument
    ctor_outcome,           \* "none" | "pending" | "ok" | "ValueError"
    \* ---- run_monte_carlo_simulation (forecasting.py) ----
    historical_returns,     \* argument: sequence of [date, value], date a day number
    projection_years,       \* argument
    initial_value,          \* argument
    num_simulations,        \* argument
    mu,                     \* historical_returns.mean()
    sigma,                  \* historical_returns.std(), held as its square
    simulation_results,     \* the paths simulated so far, one sequence of values each
    forecast_df,            \* the frame returned: sequence of rows
    mc_pc,                  \* "none" | "stats" | "simulate" | "done" | "raised"
    mc_error,               \* the exception raised, "" if none
    \* ---- generate_risk_report (risk.py) ----
    price_data,             \* argument: sequence of price rows
    risk_weights,           \* argument weights
    log_returns,            \* the rows of returns left by dropna()
    report                  \* "none" | "raised" | the pair returned

vars == <<target_weights, rebalance_frequency, last_rebalance_date, data,
          earlier_runs,
          initial_investment, monthly_topup, annual_increase, holdings, cash,
          current_monthly_topup, portfolio_history, last_month, last_year,
          is_rebalance_day, total_value, pc, result, call_log,
          ctor_weights, ctor_outcome, historical_returns, projection_years,
          initial_value, num_simulations, mu, sigma, simulation_results,
          forecast_df, mc_pc, mc_error, price_data, risk_weights, log_returns,
          report>>

portfolio_vars == <<target_weights, rebalance_frequency, last_rebalance_date, call_log>>

engine_vars == <<data, earlier_runs, initial_investment, monthly_topup, annual_increase,
                 holdings, cash, current_monthly_topup, portfolio_history,
                 last_month, last_year, is_rebalance_day, total_value, pc, result>>

ctor_vars == <<ctor_weights, ctor_outcome>>

mc_vars == <<historical_returns, projection_years, initial_value, num_simulations,
             mu, sigma, simulation_results, forecast_df, mc_pc, mc_error>>

risk_vars == <<price_data, risk_weights, log_returns, report>>

(***************************************************************************)
(* Bounds of the model.                                                    *)
(***************************************************************************)
MaxRows == 3        \* rows of the price table
MaxCalls == 3       \* direct should_rebalance calls in the Portfolio-only specification

(***************************************************************************)
(* Exact arithmetic standing for Python's float operators.                 *)
(***************************************************************************)
Abs(x) == IF x < 0 THEN -x ELSE x

RECURSIVE GCD(_, _)
GCD(a, b) == IF b = 0 THEN a ELSE GCD(b, a % b)

\* float('nan'): a zero denominator; every operation on it gives it back
NaN == <<0, 0>>
IsNaN(x) == x[2] = 0

Rat(n, d) ==
    IF d = 0 THEN NaN
    ELSE LET s == IF d < 0 THEN -1 ELSE 1
             g == GCD(Abs(n), Abs(d))
         IN  <<(s * n) \div g, (s * d) \div g>>

FromInt(n) == <<n, 1>>
Zero == FromInt(0)
One == FromInt(1)

RAdd(x, y) == Rat(x[1] * y[2] + y[1] * x[2], x[2] * y[2])
RMul(x, y) == Rat(x[1] * y[1], x[2] * y[2])
RDiv(x, y) == Rat(x[1] * y[2], x[2] * y[1])
RPositive(x) == x[1] > 0
RLeq(x, y) == ~IsNaN(x) /\ ~IsNaN(y) /\ x[1] * y[2] <= y[1] * x[2]

\* sum(f[k] for k in S)
RECURSIVE RSum(_, _)
RSum(f, S) ==
    IF S = {} THEN Zero
    ELSE LET k == CHOOSE k \in S : TRUE
         IN  RAdd(f[k], RSum(f, S \ {k}))

\* k more decimal digits of r/d appended to acc: <<digits, remainder>>
RECURSIVE LongDivision(_, _, _, _)
LongDivision(acc, r, d, k) ==
    IF k = 0 THEN <<acc, r>>
    ELSE LongDivision(acc * 10 + (r * 10) \div d, (r * 10) % d, d, k - 1)

\* round(x, 5): x to five decimals, ties to the even digit, as a rational
Round5(x) ==
    LET fr == LongDivision(x[1] \div x[2], x[1] % x[2], x[2], 5)
        f == fr[1]
        up == 2 * fr[2] > x[2] \/ (2 * fr[2] = x[2] /\ f % 2 = 1)
    IN  Rat(IF up THEN f + 1 ELSE f, 100000)

(***************************************************************************)
(* Dates.                                                                  *)
(***************************************************************************)
NoDate == [year |-> 0, month |-> 0, day |-> 0]

Date(y, m, d) == [year |-> y, month |-> m, day |-> d]

\* Timestamp.quarter
Quarter(d) == ((d.month - 1) \div 3) + 1

DateLT(a, b) ==
    \/ a.year < b.year
    \/ a.year = b.year /\ a.month < b.month
    \/ a.year = b.year /\ a.month = b.month /\ a.day < b.day

DateLeq(a, b) == a = b \/ DateLT(a, b)

\* The dates the price tables and the direct calls draw from.
Dates ==
    { Date(2023, 1, 15), Date(2023, 1, 20), Date(2023, 2, 3), Date(2023, 4, 3),
      Date(2023, 12, 29), Date(2024, 1, 2), Date(2024, 2, 3) }

(***************************************************************************)
(* Portfolio (portfolio.py).                                               *)
(***************************************************************************)
Tickers == {"A", "B"}

Frequencies == {"None", "monthly", "quarterly", "annually"}

\* (mutant) no check of the sum
WeightsAccepted_always(w) == TRUE

\* Portfolio.__init__: the weights check that raises ValueError
WeightsAccepted(w) == Round5(RSum(w, DOMAIN w)) = One

CandidateWeights ==
    { ("A" :> One),
      ("A" :> Rat(1, 2) @@ "B" :> Rat(1, 2)),
      ("A" :> Rat(1, 4) @@ "B" :> Rat(3, 4)),
      ("A" :> Rat(1, 2) @@ "B" :> Rat(9, 20)) }

\* (mutant) no buy-and-hold exit: frequency None goes on to the first-call branch
ShouldRebalance_noNoneExit(freq, last, current_date) ==
    IF last = NoDate THEN [ret |-> FALSE, last |-> current_date]
    ELSE IF freq = "monthly" /\ current_date.month # last.month
        THEN [ret |-> TRUE, last |-> current_date]
    ELSE IF freq = "quarterly" /\ Quarter(current_date) # Quarter(last)
        THEN [ret |-> TRUE, last |-> current_date]
    ELSE IF freq = "annually" /\ current_date.year # last.year
        THEN [ret |-> TRUE, last |-> current_date]
    ELSE [ret |-> FALSE, last |-> last]

\* (mutant) the first call stores the date and reports a rebalance
ShouldRebalance_firstTrue(freq, last, current_date) ==
    IF freq = "None" THEN [ret |-> FALSE, last |-> last]
    ELSE IF last = NoDate THEN [ret |-> TRUE, last |-> current_date]
    ELSE IF freq = "monthly" /\ current_date.month # last.month
        THEN [ret |-> TRUE, last |-> current_date]
    ELSE IF freq = "quarterly" /\ Quarter(current_date) # Quarter(last)
        THEN [ret |-> TRUE, last |-> current_date]
    ELSE IF freq = "annually" /\ current_date.year # last.year
        THEN [ret |-> TRUE, last |-> current_date]
    ELSE [ret |-> FALSE, last |-> last]

ShouldRebalance_keepsDate(freq, last, current_date) ==
    IF freq = "None" THEN [ret |-> FALSE, last |-> last]
    ELSE IF last = NoDate THEN [ret |-> FALSE, last |-> current_date]
    ELSE IF freq = "monthly" /\ current_date.month # last.month
        THEN [ret |-> TRUE, last |-> last]
    ELSE IF freq = "quarterly" /\ Quarter(current_date) # Quarter(last)
        THEN [ret |-> TRUE, last |-> last]
    ELSE IF freq = "annually" /\ current_date.year # last.year
        THEN [ret |-> TRUE, last |-> last]
    ELSE [ret |-> FALSE, last |-> last]

\* (mutant) a rebalance only for a date after the stored date
ShouldRebalance_onlyForward(freq, last, current_date) ==
    IF freq = "None" THEN [ret |-> FALSE, last |-> last]
    ELSE IF last = NoDate THEN [ret |-> FALSE, last |-> current_date]
    ELSE IF ~DateLT(last, current_date) THEN [ret |-> FALSE, last |-> last]
    ELSE IF freq = "monthly" /\ current_date.month # last.month
        THEN [ret |-> TRUE, last |-> current_date]
    ELSE IF freq = "quarterly" /\ Quarter(current_date) # Quarter(last)
        THEN [ret |-> TRUE, last |-> current_date]
    ELSE IF freq = "annually" /\ current_date.year # last.year
        THEN [ret |-> TRUE, last |-> current_date]
    ELSE [ret |-> FALSE, last |-> last]

\* Portfolio.should_rebalance as a function of the object's state and the
\* argument: the value returned and the stored date afterwards.
ShouldRebalance(freq, last, current_date) ==
    IF freq = "None" THEN [ret |-> FALSE, last |-> last]
    ELSE IF last = NoDate THEN [ret |-> FALSE, last |-> current_date]
    ELSE IF freq = "monthly" /\ current_date.month # last.month
        THEN [ret |-> TRUE, last |-> current_date]
    ELSE IF freq = "quarterly" /\ Quarter(current_date) # Quarter(last)
        THEN [ret |-> TRUE, last |-> current_date]
    ELSE IF freq = "annually" /\ current_date.year # last.year
        THEN [ret |-> TRUE, last |-> current_date]
    ELSE [ret |-> FALSE, last |-> last]

(***************************************************************************)
(* run_backtest (engine.py).                                               *)
(***************************************************************************)
InitialInvestments == {1000}

\* <<monthly_topup, annual_increase>>
ContributionSchedules == {<<0, 0>>, <<100, 0>>, <<100, 10>>}

\* The price rows a table draws from (columns A and B).
PriceRows ==
    { ("A" :> FromInt(10) @@ "B" :> FromInt(10)),
      ("A" :> FromInt(20) @@ "B" :> FromInt(10)),
      ("A" :> FromInt(10) @@ "B" :> FromInt(20)),
      ("A" :> FromInt(0) @@ "B" :> FromInt(10)) }

\* sum(holdings[ticker] * prices[ticker] for ticker in holdings)
MarketValue(h, prices) ==
    RSum([t \in DOMAIN h |-> RMul(h[t], prices[t])], DOMAIN h)

\* lines 36-37: the yearly increase of the monthly top-up amount
TopupAfter(topup, lastYear, current_date, increase) ==
    IF lastYear # 0 /\ current_date.year > lastYear
    THEN RMul(topup, RAdd(One, RDiv(FromInt(increase), FromInt(100))))
    ELSE topup

\* (mutant) the top-up is taken out of the cash
CashAfterInjection_withdraws(c, topup, lastMonth, current_date) ==
    IF lastMonth # 0 /\ current_date.month # lastMonth
    THEN RAdd(c, Rat(-topup[1], topup[2]))
    ELSE c

\* (mutant) every row after the first injects the top-up
CashAfterInjection_everyRow(c, topup, lastMonth, current_date) ==
    IF lastMonth # 0 THEN RAdd(c, topup) ELSE c

\* lines 40-41: the monthly cash injection
CashAfterInjection(c, topup, lastMonth, current_date) ==
    IF lastMonth # 0 /\ current_date.month # lastMonth
    THEN RAdd(c, topup)
    ELSE c

\* (mutant) the first day is not a deployment
IsDeployDay_rebalanceOnly(is_first_day, rebalance_day) == rebalance_day

\* (mutant) every day is a deployment
IsDeployDay_always(is_first_day, rebalance_day) == TRUE

\* line 51: the deployment condition
IsDeployDay(is_first_day, rebalance_day) == is_first_day \/ rebalance_day

\* (mutant) the whole total value goes into every asset
DeployHoldings_noWeight(h, total, prices, weights) ==
    [t \in DOMAIN h |->
        IF t \in DOMAIN weights /\ RPositive(prices[t])
        THEN RDiv(total, prices[t])
        ELSE h[t]]

\* (mutant) the price is not tested before the division
DeployHoldings_noPriceGuard(h, total, prices, weights) ==
    [t \in DOMAIN h |->
        IF t \in DOMAIN weights
        THEN RDiv(RMul(total, weights[t]), prices[t])
        ELSE h[t]]

\* lines 59-62: holdings re-calculated from the total value and the target weights
DeployHoldings(h, total, prices, weights) ==
    [t \in DOMAIN h |->
        IF t \in DOMAIN weights /\ RPositive(prices[t])
        THEN RDiv(RMul(total, weights[t]), prices[t])
        ELSE h[t]]

\* (mutant) the deployment leaves the cash where it is
CashAfterDeploy_kept(c) == c

\* line 56: cash after the deployment
CashAfterDeploy(c) == Zero

\* (mutant) the day's value leaves the cash out
HistoryEntry_noCash(current_date, h, c, prices) ==
    [Date |-> current_date, Value |-> MarketValue(h, prices)]

\* line 67: the entry appended to portfolio_history
HistoryEntry(current_date, h, c, prices) ==
    [Date |-> current_date, Value |-> RAdd(MarketValue(h, prices), c)]

\* nothing constructed on its own, no forecast and no risk report asked for
ConstructorIdle == ctor_weights = <<>> /\ ctor_outcome = "none"

ForecastIdle ==
    /\ historical_returns = <<>>
    /\ projection_years = 0
    /\ initial_value = Zero
    /\ num_simulations = 0
    /\ mu = Zero
    /\ sigma = Zero
    /\ simulation_results = <<>>
    /\ forecast_df = <<>>
    /\ mc_pc = "none"
    /\ mc_error = ""

RiskIdle ==
    price_data = <<>> /\ risk_weights = <<>> /\ log_returns = <<>> /\ report = "none"

Init ==
    /\ ConstructorIdle /\ ForecastIdle /\ RiskIdle
    /\ target_weights \in {w \in CandidateWeights : WeightsAccepted(w)}
    /\ rebalance_frequency \in Frequencies
    /\ last_rebalance_date = NoDate
    /\ data = <<>>
    /\ earlier_runs = <<>>
    /\ initial_investment \in InitialInvestments
    /\ \E c \in ContributionSchedules :
           monthly_topup = c[1] /\ annual_increase = c[2]
    /\ holdings = [t \in Tickers |-> Zero]
    /\ cash = FromInt(initial_investment)
    /\ current_monthly_topup = FromInt(monthly_topup)
    /\ portfolio_history = <<>>
    /\ last_month = 0
    /\ last_year = 0
    /\ is_rebalance_day = FALSE
    /\ total_value = Zero
    /\ pc = "loop"
    /\ result = <<>>
    /\ call_log = <<>>

\* line 60 on a deployment day: prices[ticker] for a ticker of the target
\* weights that is no column of the table raises KeyError
LookupFails(current_date, prices) ==
    /\ IsDeployDay(portfolio_history = <<>>,
                   ShouldRebalance(rebalance_frequency, last_rebalance_date,
                                   current_date).ret)
    /\ ~(DOMAIN target_weights \subseteq DOMAIN prices)

\* One iteration of the main simulation loop (lines 33-67) on the next row
\* of the table, whose date follows the previous row's.
LoopBody(current_date, prices) ==
    /\ pc = "loop"
    /\ Len(data) < MaxRows
    /\ data # <<>> => DateLT(data[Len(data)].date, current_date)
    /\ DOMAIN prices = DOMAIN holdings
    /\ ~LookupFails(current_date, prices)
    /\ LET topup == TopupAfter(current_monthly_topup, last_year, current_date, annual_increase)
           cash1 == CashAfterInjection(cash, topup, last_month, current_date)
           is_first_day == portfolio_history = <<>>
           sr == ShouldRebalance(rebalance_frequency, last_rebalance_date, current_date)
           deploy == IsDeployDay(is_first_day, sr.ret)
           total == RAdd(MarketValue(holdings, prices), cash1)
           h2 == IF deploy THEN DeployHoldings(holdings, total, prices, target_weights)
                 ELSE holdings
           cash2 == IF deploy THEN CashAfterDeploy(cash1) ELSE cash1
       IN  /\ data' = Append(data, [date |-> current_date, prices |-> prices])
           /\ current_monthly_topup' = topup
           /\ last_month' = current_date.month
           /\ last_year' = current_date.year
           /\ last_rebalance_date' = sr.last
           /\ call_log' = Append(call_log, [date |-> current_date, ret |-> sr.ret])
           /\ is_rebalance_day' = sr.ret
           /\ total_value' = IF deploy THEN total ELSE total_value
           /\ holdings' = h2
           /\ cash' = cash2
           /\ portfolio_history' =
                  Append(portfolio_history, HistoryEntry(current_date, h2, cash2, prices))
    /\ UNCHANGED <<target_weights, rebalance_frequency, initial_investment,
                   monthly_topup, annual_increase, pc, result, earlier_runs>>
    /\ UNCHANGED <<ctor_vars, mc_vars, risk_vars>>

\* lines 70-73: the table is exhausted; the history becomes the result frame
\* indexed by Date.  An empty history has no 'Date' column: set_index raises.
Return ==
    /\ pc = "loop"
    /\ IF portfolio_history = <<>>
       THEN pc' = "raised" /\ result' = <<>>
       ELSE pc' = "done" /\ result' = <<portfolio_history, holdings, cash>>
    /\ UNCHANGED <<target_weights, rebalance_frequency, last_rebalance_date, data,
                   initial_investment, monthly_topup, annual_increase, holdings, cash,
                   current_monthly_topup, portfolio_history, last_month, last_year,
                   is_rebalance_day, total_value, call_log, earlier_runs>>
    /\ UNCHANGED <<ctor_vars, mc_vars, risk_vars>>

Next ==
    \/ \E d \in Dates, p \in PriceRows : LoopBody(d, p)
    \/ Return

Spec == Init /\ [][Next]_vars

(***************************************************************************)
(* run_backtest called a second time with the same arguments: the same     *)
(* price table, the same contribution parameters and the same Portfolio    *)
(* object, which still holds the date its should_rebalance stored last.    *)
(***************************************************************************)
ReuseWeights == { ("A" :> Rat(1, 4) @@ "B" :> Rat(3, 4)) }

ReuseContributions == { <<100, 10>> }

InitReuse ==
    /\ Init
    /\ target_weights \in ReuseWeights
    /\ <<monthly_topup, annual_increase>> \in ReuseContributions

\* a loop iteration of the first call, on any next row
FirstRunLoopBody(current_date, prices) ==
    /\ earlier_runs = <<>>
    /\ LoopBody(current_date, prices)

\* a loop iteration of the second call, on the next row of the same table
SecondRunLoopBody ==
    /\ earlier_runs # <<>>
    /\ Len(data) < Len(earlier_runs[1].data)
    /\ LET row == earlier_runs[1].data[Len(data) + 1]
       IN  LoopBody(row.date, row.prices)

\* the end of either call, once its table is exhausted
ReuseReturn ==
    /\ earlier_runs # <<>> => Len(data) = Len(earlier_runs[1].data)
    /\ Return

\* the caller calls run_backtest again: lines 24-30 start the locals afresh,
\* the Portfolio object is passed as it is
CallAgain ==
    /\ pc = "done"
    /\ earlier_runs = <<>>
    /\ earlier_runs' = <<[data |-> data, result |-> result]>>
    /\ data' = <<>>
    /\ holdings' = [t \in DOMAIN holdings |-> Zero]
    /\ cash' = FromInt(initial_investment)
    /\ current_monthly_topup' = FromInt(monthly_topup)
    /\ portfolio_history' = <<>>
    /\ last_month' = 0
    /\ last_year' = 0
    /\ is_rebalance_day' = FALSE
    /\ total_value' = Zero
    /\ pc' = "loop"
    /\ result' = <<>>
    /\ UNCHANGED <<target_weights, rebalance_frequency, last_rebalance_date,
                   call_log, initial_investment, monthly_topup, annual_increase>>
    /\ UNCHANGED <<ctor_vars, mc_vars, risk_vars>>

NextReuse ==
    \/ \E d \in Dates, p \in PriceRows : FirstRunLoopBody(d, p)
    \/ SecondRunLoopBody
    \/ ReuseReturn
    \/ CallAgain

SpecReuse == InitReuse /\ [][NextReuse]_vars

(***************************************************************************)
(* run_backtest on wider inputs: tables that lack a column of the target   *)
(* weights or hold NaN or negative prices, and accepted weights that are   *)
(* not all in [0, 1].                                                      *)
(***************************************************************************)
WideCandidateWeights ==
    { ("A" :> One),
      ("A" :> Rat(1, 2) @@ "B" :> Rat(1, 2)),
      ("A" :> Rat(3, 2) @@ "B" :> Rat(-1, 2)) }

WideColumns == { {"A", "B"}, {"B"} }

WideFrequencies == {"None", "monthly"}

WidePriceRows ==
    { ("A" :> FromInt(10) @@ "B" :> FromInt(10)),
      ("A" :> FromInt(20) @@ "B" :> FromInt(10)),
      ("A" :> NaN @@ "B" :> FromInt(10)),
      ("A" :> FromInt(10) @@ "B" :> NaN),
      ("A" :> FromInt(-10) @@ "B" :> FromInt(10)),
      ("A" :> Zero @@ "B" :> FromInt(10)),
      ("B" :> FromInt(10)),
      ("B" :> FromInt(20)) }

InitWide ==
    /\ ConstructorIdle /\ ForecastIdle /\ RiskIdle
    /\ target_weights \in {w \in WideCandidateWeights : WeightsAccepted(w)}
    /\ rebalance_frequency \in WideFrequencies
    /\ last_rebalance_date = NoDate
    /\ data = <<>>
    /\ earlier_runs = <<>>
    /\ initial_investment = 1000
    /\ monthly_topup = 100
    /\ annual_increase = 0
    /\ \E columns \in WideColumns : holdings = [t \in columns |-> Zero]
    /\ cash = FromInt(initial_investment)
    /\ current_monthly_topup = FromInt(monthly_topup)
    /\ portfolio_history = <<>>
    /\ last_month = 0
    /\ last_year = 0
    /\ is_rebalance_day = FALSE
    /\ total_value = Zero
    /\ pc = "loop"
    /\ result = <<>>
    /\ call_log = <<>>

\* A loop iteration that raises KeyError on line 60: the row is consumed,
\* the lines before 60 have run (and the holdings of the tickers the loop of
\* line 59 reached first are already set), nothing is appended or returned.
LoopBodyKeyError(current_date, prices) ==
    /\ pc = "loop"
    /\ Len(data) < MaxRows
    /\ data # <<>> => DateLT(data[Len(data)].date, current_date)
    /\ DOMAIN prices = DOMAIN holdings
    /\ LookupFails(current_date, prices)
    /\ LET topup == TopupAfter(current_monthly_topup, last_year, current_date, annual_increase)
           cash1 == CashAfterInjection(cash, topup, last_month, current_date)
           sr == ShouldRebalance(rebalance_frequency, last_rebalance_date, current_date)
           total == RAdd(MarketValue(holdings, prices), cash1)
       IN  /\ data' = Append(data, [date |-> current_date, prices |-> prices])
           /\ current_monthly_topup' = topup
           /\ last_month' = current_date.month
           /\ last_year' = current_date.year
           /\ last_rebalance_date' = sr.last
           /\ call_log' = Append(call_log, [date |-> current_date, ret |-> sr.ret])
           /\ is_rebalance_day' = sr.ret
           /\ total_value' = total
           /\ cash' = CashAfterDeploy(cash1)
           /\ \E reached \in SUBSET (DOMAIN target_weights \cap DOMAIN prices) :
                  holdings' = DeployHoldings(holdings, total, prices,
                                             [t \in reached |-> target_weights[t]])
    /\ pc' = "raised"
    /\ UNCHANGED <<target_weights, rebalance_frequency, initial_investment,
                   monthly_topup, annual_increase, portfolio_history, result,
                   earlier_runs>>
    /\ UNCHANGED <<ctor_vars, mc_vars, risk_vars>>

NextWide ==
    \/ \E d \in Dates, p \in WidePriceRows : LoopBody(d, p)
    \/ \E d \in Dates, p \in WidePriceRows : LoopBodyKeyError(d, p)
    \/ Return

SpecWide == InitWide /\ [][NextWide]_vars

(***************************************************************************)
(* The Portfolio alone: should_rebalance called directly, with any dates   *)
(* in any order.                                                           *)
(***************************************************************************)
CallShouldRebalance(current_date) ==
    /\ Len(call_log) < MaxCalls
    /\ LET sr == ShouldRebalance(rebalance_frequency, last_rebalance_date, current_date)
       IN  /\ last_rebalance_date' = sr.last
           /\ call_log' = Append(call_log, [date |-> current_date, ret |-> sr.ret])
    /\ UNCHANGED <<target_weights, rebalance_frequency>>
    /\ UNCHANGED <<engine_vars, ctor_vars, mc_vars, risk_vars>>

NextPortfolio == \E d \in Dates : CallShouldRebalance(d)

SpecPortfolio == Init /\ [][NextPortfolio]_vars

(***************************************************************************)
(* Portfolio.__init__ on its own: the constructor called with a candidate  *)
(* mapping of string tickers; no run, no other call.                       *)
(***************************************************************************)
\* no backtest running
EngineIdle ==
    /\ data = <<>>
    /\ earlier_runs = <<>>
    /\ initial_investment = 0
    /\ monthly_topup = 0
    /\ annual_increase = 0
    /\ holdings = <<>>
    /\ cash = Zero
    /\ current_monthly_topup = Zero
    /\ portfolio_history = <<>>
    /\ last_month = 0
    /\ last_year = 0
    /\ is_rebalance_day = FALSE
    /\ total_value = Zero
    /\ pc = "none"
    /\ result = <<>>

\* no Portfolio object
PortfolioAbsent ==
    /\ target_weights = <<>>
    /\ rebalance_frequency = "None"
    /\ last_rebalance_date = NoDate
    /\ call_log = <<>>

\* weights of A (coarse) and of B (in millionths around one half)
ConstructorWeightsA == {Rat(1, 2), Rat(9, 20), Rat(11, 20), Rat(1, 4), Rat(3, 4)}
ConstructorOffsetsB == {-50000, -20, -10, -6, -5, -4, 0, 4, 5, 6, 10, 20, 50000}

ConstructorArguments ==
    { ("A" :> a @@ "B" :> Rat(500000 + e, 1000000)) :
        a \in ConstructorWeightsA, e \in ConstructorOffsetsB }

InitConstruct ==
    /\ EngineIdle /\ PortfolioAbsent /\ ForecastIdle /\ RiskIdle
    /\ ctor_weights \in ConstructorArguments
    /\ ctor_outcome = "pending"

\* Portfolio.__init__ (lines 17-25) for a dict of string tickers
Construct(frequency) ==
    /\ ctor_outcome = "pending"
    /\ IF WeightsAccepted(ctor_weights)
       THEN /\ target_weights' = ctor_weights
            /\ rebalance_frequency' = frequency
            /\ last_rebalance_date' = NoDate
            /\ ctor_outcome' = "ok"
       ELSE /\ ctor_outcome' = "ValueError"
            /\ UNCHANGED <<target_weights, rebalance_frequency, last_rebalance_date>>
    /\ UNCHANGED <<ctor_weights, call_log, engine_vars, mc_vars, risk_vars>>

NextConstruct == \E f \in Frequencies : Construct(f)

SpecConstruct == InitConstruct /\ [][NextConstruct]_vars

(***************************************************************************)
(* run_monte_carlo_simulation (forecasting.py).  A date is a day number.   *)
(* sigma is held as its square (the sample variance): NaN, zero or         *)
(* positive, which is all the draw depends on here.  A draw from           *)
(* Normal(mu, sigma) is NaN when mu or sigma is, mu itself when sigma is   *)
(* zero, and otherwise any value: the model draws one of ShockPatterns.    *)
(***************************************************************************)
TradingDays == 252
MaxYears == 1           \* projection_years
MaxSimulations == 2     \* num_simulations

\* the return series a forecast is asked for: the values, oldest first
ReturnValues ==
    { <<>>, <<Zero>>, <<Zero, Zero>>, <<Zero, Zero, Zero>>, <<Rat(1, 10)>>,
      <<Rat(1, 10), Rat(-1, 10)>>, <<Rat(1, 5), Zero>> }

LastHistoricalDates == {100, 365}
InitialValues == {1000, 250}

\* a series of the values on consecutive days ending on day last
ReturnSeries(values, last) ==
    [k \in 1..Len(values) |-> [date |-> last - Len(values) + k, value |-> values[k]]]

\* Series.mean(): NaN for an empty series
Mean(series) ==
    IF series = <<>> THEN NaN
    ELSE RDiv(RSum([k \in 1..Len(series) |-> series[k].value], 1..Len(series)),
              FromInt(Len(series)))

\* (mutant) the population variance: zero for a single return
Variance_population(series) ==
    IF series = <<>> THEN NaN
    ELSE LET m == Mean(series)
             sq == [k \in 1..Len(series) |->
                      RMul(RAdd(series[k].value, RMul(FromInt(-1), m)),
                           RAdd(series[k].value, RMul(FromInt(-1), m)))]
         IN  RDiv(RSum(sq, 1..Len(series)), FromInt(Len(series)))

\* the square of Series.std() (ddof = 1): NaN for fewer than two values
Variance(series) ==
    IF Len(series) < 2 THEN NaN
    ELSE LET m == Mean(series)
             sq == [k \in 1..Len(series) |->
                      RMul(RAdd(series[k].value, RMul(FromInt(-1), m)),
                           RAdd(series[k].value, RMul(FromInt(-1), m)))]
         IN  RDiv(RSum(sq, 1..Len(series)), FromInt(Len(series) - 1))

\* (mutant) 365 days in a year
NumDays_calendar(years) == years * 365

\* line 21
NumDays(years) == years * TradingDays

\* the shock of day j in each pattern a positive sigma can produce
ShockPatterns == {"flat", "crash", "swing"}

PatternShock(pattern, j) ==
    IF pattern = "flat" THEN Zero
    ELSE IF pattern = "crash" THEN FromInt(-1)
    ELSE IF j % 2 = 1 THEN One ELSE Rat(-1, 2)

\* (mutant) a zero sigma is drawn from like a positive one
DrawShock_ignoresZeroSigma(m, var, pattern, j) ==
    IF IsNaN(m) \/ IsNaN(var) THEN NaN
    ELSE PatternShock(pattern, j)

\* line 31: np.random.normal(mu, sigma, num_days)[j-1]
DrawShock(m, var, pattern, j) ==
    IF IsNaN(m) \/ IsNaN(var) THEN NaN
    ELSE IF var = Zero THEN m
    ELSE PatternShock(pattern, j)

\* lines 28-36: the path of one simulation over days a..b, next_price being
\* the price before day a; each day multiplies the previous day's price
RECURSIVE PricePath(_, _, _, _, _, _)
PricePath(next_price, m, var, pattern, a, b) ==
    IF a > b THEN <<>>
    ELSE IF a = b
        THEN <<RMul(next_price, RAdd(One, DrawShock(m, var, pattern, a)))>>
    ELSE LET mid == (a + b) \div 2
             left == PricePath(next_price, m, var, pattern, a, mid)
         IN  left \o PricePath(left[Len(left)], m, var, pattern, mid + 1, b)

\* values in increasing order
RECURSIVE SortValues(_)
SortValues(values) ==
    IF values = <<>> THEN <<>>
    ELSE LET i == CHOOSE i \in 1..Len(values) :
                      \A k \in 1..Len(values) : RLeq(values[i], values[k])
             rest == [k \in 1..(Len(values) - 1) |->
                        IF k < i THEN values[k] ELSE values[k + 1]]
         IN  <<values[i]>> \o SortValues(rest)

\* DataFrame.quantile(q, axis=1) on one row: linear interpolation between
\* the two nearest order statistics; NaN when the values are NaN
Quantile(values, q) ==
    IF values = <<>> \/ \E k \in 1..Len(values) : IsNaN(values[k]) THEN NaN
    ELSE LET sorted == SortValues(values)
             pos == RMul(q, FromInt(Len(values) - 1))
             lo == pos[1] \div pos[2]
             frac == RAdd(pos, FromInt(-lo))
         IN  IF frac = Zero THEN sorted[lo + 1]
             ELSE RAdd(sorted[lo + 1],
                       RMul(RAdd(sorted[lo + 2], RMul(FromInt(-1), sorted[lo + 1])), frac))

\* (mutant) the dates start on the last historical day
FutureDate_fromZero(last_date, x) == last_date + x - 1

\* line 41: last_date + pd.DateOffset(days=x)
FutureDate(last_date, x) == last_date + x

\* lines 41-52: row j of the forecast frame
ForecastRow(j) ==
    LET values == [i \in 1..Len(simulation_results) |-> simulation_results[i][j]]
    IN  [date |-> FutureDate(historical_returns[Len(historical_returns)].date, j),
         median |-> Quantile(values, Rat(1, 2)),
         upper_bound_75 |-> Quantile(values, Rat(3, 4)),
         lower_bound_25 |-> Quantile(values, Rat(1, 4)),
         upper_bound_95 |-> Quantile(values, Rat(19, 20)),
         lower_bound_05 |-> Quantile(values, Rat(1, 20))]

InitForecast ==
    /\ EngineIdle /\ PortfolioAbsent /\ ConstructorIdle /\ RiskIdle
    /\ \E values \in ReturnValues, last \in LastHistoricalDates :
           historical_returns = ReturnSeries(values, last)
    /\ projection_years \in 1..MaxYears
    /\ \E v \in InitialValues : initial_value = FromInt(v)
    /\ num_simulations \in 1..MaxSimulations
    /\ mu = Zero
    /\ sigma = Zero
    /\ simulation_results = <<>>
    /\ forecast_df = <<>>
    /\ mc_pc = "stats"
    /\ mc_error = ""

\* lines 18-24: the historical mean and deviation, the empty results matrix
ComputeStatistics ==
    /\ mc_pc = "stats"
    /\ mu' = Mean(historical_returns)
    /\ sigma' = Variance(historical_returns)
    /\ simulation_results' = <<>>
    /\ mc_pc' = "simulate"
    /\ UNCHANGED <<historical_returns, projection_years, initial_value,
                   num_simulations, forecast_df, mc_error>>
    /\ UNCHANGED <<portfolio_vars, engine_vars, ctor_vars, risk_vars>>

\* lines 27-36: one iteration of the simulation loop
SimulatePath(pattern) ==
    /\ mc_pc = "simulate"
    /\ Len(simulation_results) < num_simulations
    /\ simulation_results' =
           Append(simulation_results,
                  PricePath(initial_value, mu, sigma, pattern, 1, NumDays(projection_years)))
    /\ UNCHANGED <<historical_returns, projection_years, initial_value,
                   num_simulations, mu, sigma, forecast_df, mc_pc, mc_error>>
    /\ UNCHANGED <<portfolio_vars, engine_vars, ctor_vars, risk_vars>>

\* lines 40-54: the date index and the quantile columns; index[-1] of an
\* empty series raises IndexError
ProcessResults ==
    /\ mc_pc = "simulate"
    /\ Len(simulation_results) = num_simulations
    /\ IF historical_returns = <<>>
       THEN /\ mc_pc' = "raised"
            /\ mc_error' = "IndexError"
            /\ UNCHANGED forecast_df
       ELSE /\ mc_pc' = "done"
            /\ forecast_df' = [j \in 1..NumDays(projection_years) |-> ForecastRow(j)]
            /\ UNCHANGED mc_error
    /\ UNCHANGED <<historical_returns, projection_years, initial_value,
                   num_simulations, mu, sigma, simulation_results>>
    /\ UNCHANGED <<portfolio_vars, engine_vars, ctor_vars, risk_vars>>

NextForecast ==
    \/ ComputeStatistics
    \/ \E pattern \in ShockPatterns : SimulatePath(pattern)
    \/ ProcessResults

SpecForecast == InitForecast /\ [][NextForecast]_vars

(***************************************************************************)
(* generate_risk_report (risk.py).  A price table is its columns and its   *)
(* rows; a cell is a price or NaN.  A log return is kept as the ratio it   *)
(* is the logarithm of, or as nan, inf or -inf.  The values of the metrics *)
(* (lines 31-53) and the figure (lines 56-64) are not computed here: the   *)
(* report is the pair returned, (None, None) or (metrics, fig).             *)
(***************************************************************************)
MaxPriceRows == 3   \* rows of the price table given to generate_risk_report

RiskColumns == { {}, {"A"}, {"A", "B"} }

RiskPrices == {FromInt(10), FromInt(20), Zero, NaN}

RiskPriceRows(columns) ==
    IF columns = {"A", "B"}
        THEN { ("A" :> FromInt(10) @@ "B" :> FromInt(10)),
               ("A" :> FromInt(20) @@ "B" :> FromInt(10)),
               ("A" :> FromInt(10) @@ "B" :> FromInt(20)),
               ("A" :> NaN @@ "B" :> FromInt(10)),
               ("A" :> FromInt(-10) @@ "B" :> FromInt(10)),
               ("A" :> Zero @@ "B" :> FromInt(10)) }
    ELSE [columns -> RiskPrices]

RiskTables ==
    UNION { { [columns |-> c, rows |-> r] : r \in [1..n -> RiskPriceRows(c)] } :
            c \in RiskColumns, n \in 0..MaxPriceRows }

RiskWeights ==
    { ("A" :> Rat(1, 2) @@ "B" :> Rat(1, 2)),
      ("B" :> One) }

NoneNone == "(None, None)"

MetricsAndFigure == "(metrics, fig)"

\* line 17: price_data.shape[0] < 2 or price_data.shape[1] < 1
ShapeTooSmall(table) == Len(table.rows) < 2 \/ Cardinality(table.columns) < 1

\* line 21: weights[ticker] for a ticker that weights does not hold
WeightMissing(table, weights) == ~(table.columns \subseteq DOMAIN weights)

\* np.log(p / q) for one cell and the cell above it (q is NaN on the first
\* row, where shift(1) has nothing to bring down)
LogReturn(p, q) ==
    IF IsNaN(p) \/ IsNaN(q) THEN [kind |-> "nan", of |-> NaN]
    ELSE IF q = Zero
        THEN IF RPositive(p) THEN [kind |-> "inf", of |-> NaN]
             ELSE [kind |-> "nan", of |-> NaN]
    ELSE LET ratio == RDiv(p, q)
         IN  IF RPositive(ratio) THEN [kind |-> "ln", of |-> ratio]
             ELSE IF ratio = Zero THEN [kind |-> "-inf", of |-> NaN]
             ELSE [kind |-> "nan", of |-> NaN]

\* the row of price_data.shift(1) at position i
Shifted(table, i) ==
    IF i = 1 THEN [t \in table.columns |-> NaN] ELSE table.rows[i - 1]

\* .dropna(): the rows without any NaN, in order
RECURSIVE DropNa(_)
DropNa(rows) ==
    IF rows = <<>> THEN <<>>
    ELSE LET head == rows[1]
         IN  IF \E t \in DOMAIN head : head[t].kind = "nan"
                 THEN DropNa(Tail(rows))
                 ELSE <<head>> \o DropNa(Tail(rows))

LogReturns_noShift(table) ==
    DropNa([i \in 1..Len(table.rows) |->
              [t \in table.columns |->
                  LogReturn(table.rows[i][t], table.rows[i][t])]])

\* line 24: np.log(price_data / price_data.shift(1)).dropna()
LogReturns(table) ==
    DropNa([i \in 1..Len(table.rows) |->
              [t \in table.columns |->
                  LogReturn(table.rows[i][t], Shifted(table, i)[t])]])

TooFewReturns_one(returns) == Len(returns) < 1

\* line 27: len(log_returns) < 2
TooFewReturns(returns) == Len(returns) < 2

InitRisk ==
    /\ EngineIdle /\ PortfolioAbsent /\ ConstructorIdle /\ ForecastIdle
    /\ price_data \in RiskTables
    /\ risk_weights \in RiskWeights
    /\ log_returns = <<>>
    /\ report = "none"

\* lines 17-18: the table is too small, (None, None) at once
ReturnNoneOnShape ==
    /\ report = "none"
    /\ ShapeTooSmall(price_data)
    /\ report' = NoneNone
    /\ UNCHANGED <<price_data, risk_weights, log_returns>>
    /\ UNCHANGED <<portfolio_vars, engine_vars, ctor_vars, mc_vars>>

\* lines 17-21: KeyError while the weights are put in column order
RaiseKeyError ==
    /\ report = "none"
    /\ ~ShapeTooSmall(price_data)
    /\ WeightMissing(price_data, risk_weights)
    /\ report' = "raised"
    /\ UNCHANGED <<price_data, risk_weights, log_returns>>
    /\ UNCHANGED <<portfolio_vars, engine_vars, ctor_vars, mc_vars>>

\* lines 17-28: too few returns are left, (None, None)
ReturnNoneOnReturns ==
    /\ report = "none"
    /\ ~ShapeTooSmall(price_data)
    /\ ~WeightMissing(price_data, risk_weights)
    /\ log_returns' = LogReturns(price_data)
    /\ TooFewReturns(log_returns')
    /\ report' = NoneNone
    /\ UNCHANGED <<price_data, risk_weights>>
    /\ UNCHANGED <<portfolio_vars, engine_vars, ctor_vars, mc_vars>>

\* lines 17-66: the metrics and the figure are computed and returned
ReturnMetrics ==
    /\ report = "none"
    /\ ~ShapeTooSmall(price_data)
    /\ ~WeightMissing(price_data, risk_weights)
    /\ log_returns' = LogReturns(price_data)
    /\ ~TooFewReturns(log_returns')
    /\ report' = MetricsAndFigure
    /\ UNCHANGED <<price_data, risk_weights>>
    /\ UNCHANGED <<portfolio_vars, engine_vars, ctor_vars, mc_vars>>

NextRisk ==
    \/ ReturnNoneOnShape
    \/ RaiseKeyError
    \/ ReturnNoneOnReturns
    \/ ReturnMetrics

SpecRisk == InitRisk /\ [][NextRisk]_vars

(***************************************************************************)
(* Vocabulary of the properties.                                           *)
(***************************************************************************)
RSub(x, y) == RAdd(x, Rat(-y[1], y[2]))

LastRow == data[Len(data)]
LastValue == portfolio_history[Len(portfolio_history)].Value

\* a step that is one loop iteration: a row consumed, an entry appended
RowStep == Len(data') = Len(data) + 1

\* the table consumed so far has only positive prices
PositiveTable ==
    \A i \in 1..Len(data) :
        \A t \in DOMAIN data[i].prices : RPositive(data[i].prices[t])

PositiveRow(row) == \A t \in DOMAIN row.prices : RPositive(row.prices[t])

WeightsSumToOne == RSum(target_weights, DOMAIN target_weights) = One

\* the latest row was a deployment day
DeployedOnLastRow == Len(portfolio_history) = 1 \/ is_rebalance_day

\* (C1) Value conservation: on every deployment day of a table of positive
\* prices, with weights summing to exactly 1, the total value recorded right
\* after the deployment equals the total value computed right before it
\* (after that day's top-up injection).
C1_ValueConserved ==
    (portfolio_history # <<>> /\ DeployedOnLastRow /\ PositiveTable /\ WeightsSumToOne)
        => LastValue = total_value

\* a rebalance after the first row that moved holdings between two assets,
\* with a top-up injected that day
C1_Witness ==
    /\ Len(portfolio_history) >= 2
    /\ is_rebalance_day
    /\ PositiveTable
    /\ DOMAIN target_weights = {"A", "B"}
    /\ data[1].prices # LastRow.prices
    /\ monthly_topup > 0
    /\ LastValue = total_value
    /\ LastValue # FromInt(initial_investment)
    /\ cash = Zero

\* a step that is one should_rebalance call
CallStep == Len(call_log') = Len(call_log) + 1

\* the dates of the calls are in non-decreasing order
NonDecreasing(log) ==
    \A i \in 1..Len(log) : \A j \in 1..Len(log) :
        i < j => DateLeq(log[i].date, log[j].date)

\* the calendar period of a date: the month, quarter or year it lies in
CalendarPeriod(freq, d) ==
    IF freq = "monthly" THEN <<d.year, d.month>>
    ELSE IF freq = "quarterly" THEN <<d.year, Quarter(d)>>
    ELSE <<d.year>>

PeriodicFrequency == rebalance_frequency \in {"monthly", "quarterly", "annually"}

\* (C2) With a periodic frequency, every call after the first, dates
\* non-decreasing with gaps of any length, returns true iff the calendar
\* period of the current date differs from that of the stored last-rebalance
\* date, and on true the stored date becomes the current date.
C2_TrueIffPeriodDiffers ==
    [][(CallStep /\ PeriodicFrequency /\ call_log # <<>> /\ NonDecreasing(call_log'))
        => LET call == call_log'[Len(call_log')]
               differs == CalendarPeriod(rebalance_frequency, call.date)
                            # CalendarPeriod(rebalance_frequency, last_rebalance_date)
           IN  /\ call.ret <=> differs
               /\ call.ret => last_rebalance_date' = call.date
               /\ ~call.ret => last_rebalance_date' = last_rebalance_date]_vars

\* (C8) A Portfolio with frequency None returns false from every call, in any
\* sequence of dates, and never sets its stored last-rebalance date.
C8_NoneNeverRebalances ==
    rebalance_frequency = "None"
        => /\ last_rebalance_date = NoDate
           /\ \A i \in 1..Len(call_log) : call_log[i].ret = FALSE

\* buy-and-hold called three times, the dates out of order and in different years
C8_Witness ==
    /\ rebalance_frequency = "None"
    /\ Len(call_log) >= 3
    /\ DateLT(call_log[2].date, call_log[1].date)
    /\ call_log[3].date.year # call_log[2].date.year
    /\ last_rebalance_date = NoDate

\* (C9) With a periodic frequency the first call ever made returns false and
\* stores the date passed as the last-rebalance date, whatever the date.
C9_FirstCallFalse ==
    (PeriodicFrequency /\ call_log # <<>>)
        => /\ call_log[1].ret = FALSE
           /\ Len(call_log) = 1 => last_rebalance_date = call_log[1].date

\* the first call made, the date stored
C9_Witness ==
    /\ PeriodicFrequency
    /\ Len(call_log) = 1
    /\ call_log[1].ret = FALSE
    /\ last_rebalance_date = call_log[1].date
    /\ last_rebalance_date # NoDate

\* the row consumed by a loop step, and whether that step deployed
NewRow == data'[Len(data')]
NewCall == call_log'[Len(call_log')]
FirstRowStep == portfolio_history = <<>>

\* the cash right after a step's injection, before its deployment: read off
\* total_value on a deployment row, off the cash on any other row
CashBeforeDeploy(deployed) ==
    IF deployed THEN RSub(total_value', MarketValue(holdings, NewRow.prices))
    ELSE cash'

\* (C3) A row is a deployment (holdings recomputed from the total value, cash
\* zeroed) iff it is the first row or should_rebalance returned true for its
\* date; on every other row the holdings are unchanged and the cash changes
\* only by that row's top-up injection.
C3_DeployIffFirstOrRebalance ==
    [][RowStep =>
        /\ NewCall.date = NewRow.date
        /\ IF FirstRowStep \/ NewCall.ret
           THEN /\ cash' = Zero
                /\ \A t \in DOMAIN target_weights :
                       RPositive(NewRow.prices[t]) =>
                           holdings'[t] = RDiv(RMul(total_value', target_weights[t]),
                                               NewRow.prices[t])
           ELSE /\ holdings' = holdings
                /\ cash' \in {cash, RAdd(cash, current_monthly_topup')}]_vars

\* a rebalance row after a row that was no deployment and kept a top-up in cash
C3_Witness ==
    /\ Len(portfolio_history) >= 3
    /\ call_log[2].ret = FALSE
    /\ call_log[3].ret = TRUE
    /\ monthly_topup > 0
    /\ rebalance_frequency = "quarterly"
    /\ data[2].date.month # data[1].date.month
    /\ cash = Zero

\* the single-asset example: weight 1 on A, price of A constantly 10,
\* initial investment 1000, no top-ups
SingleAssetExample ==
    /\ target_weights = ("A" :> One)
    /\ initial_investment = 1000
    /\ monthly_topup = 0
    /\ \A i \in 1..Len(data) : data[i].prices["A"] = FromInt(10)

\* (C4) After every deployment on a row whose prices are all positive, each
\* asset of the target allocation has holdings x price = total value x target
\* weight, the total value being the pre-deployment sum(holdings x price) +
\* cash; the single-asset example ends with 100 units and a value series
\* constantly 1000.
C4_HoldingsMatchWeights ==
    /\ [][(RowStep /\ (FirstRowStep \/ NewCall.ret) /\ PositiveRow(NewRow)) =>
            /\ CashBeforeDeploy(TRUE) \in {cash, RAdd(cash, current_monthly_topup')}
            /\ \A t \in DOMAIN target_weights :
                   RMul(holdings'[t], NewRow.prices[t])
                       = RMul(RAdd(MarketValue(holdings, NewRow.prices),
                                   CashBeforeDeploy(TRUE)),
                              target_weights[t])]_vars
    /\ []((SingleAssetExample /\ portfolio_history # <<>>) =>
            /\ holdings["A"] = FromInt(100)
            /\ \A i \in 1..Len(portfolio_history) :
                   portfolio_history[i].Value = FromInt(1000))

\* a rebalance of two assets after their prices moved apart
C4_Witness ==
    /\ Len(portfolio_history) >= 2
    /\ is_rebalance_day
    /\ PositiveRow(LastRow)
    /\ target_weights = ("A" :> Rat(1, 4) @@ "B" :> Rat(3, 4))
    /\ data[1].prices # LastRow.prices
    /\ RMul(holdings["A"], LastRow.prices["A"]) = RMul(total_value, Rat(1, 4))
    /\ RMul(holdings["B"], LastRow.prices["B"]) = RMul(total_value, Rat(3, 4))

\* the single-asset example, run to its end
C4_WitnessExample ==
    /\ SingleAssetExample
    /\ pc = "done"
    /\ Len(portfolio_history) >= 3
    /\ holdings["A"] = FromInt(100)

\* rows i of the table that open a new calendar month: the calendar month
\* (year and month) of row i is not that of row i-1
MonthRolloverRows ==
    {i \in 2..Len(data) :
        <<data[i].date.year, data[i].date.month>>
            # <<data[i-1].date.year, data[i-1].date.month>>}

ConstantPositivePrices ==
    /\ PositiveTable
    /\ \A i \in 1..Len(data) : data[i].prices = data[1].prices

\* (C5) The top-up is injected exactly once per calendar-month rollover of
\* the table, on the first row of the new month: with constant positive
\* prices and annual increase 0%, for every frequency, the last recorded
\* value is initial investment + (number of rollovers) x monthly top-up.
C5_TopupOncePerMonthRollover ==
    (portfolio_history # <<>> /\ ConstantPositivePrices /\ annual_increase = 0)
        => LastValue = RAdd(FromInt(initial_investment),
                            FromInt(Cardinality(MonthRolloverRows) * monthly_topup))

\* The escalation as the code has it: the current top-up starts at
\* monthly_topup, is multiplied once by (1 + annual_increase/100) on the first
\* row of a new calendar year and on no other row, and whatever a row injects
\* is the amount after that row's escalation.
EscalationOncePerNewYear ==
    /\ [](portfolio_history = <<>> => current_monthly_topup = FromInt(monthly_topup))
    /\ [][RowStep =>
            LET newYear == data # <<>> /\ NewRow.date.year > LastRow.date.year
                injected == CashBeforeDeploy(FirstRowStep \/ NewCall.ret)
            IN  /\ current_monthly_topup' =
                       IF newYear
                       THEN RMul(current_monthly_topup,
                                 RAdd(One, RDiv(FromInt(annual_increase), FromInt(100))))
                       ELSE current_monthly_topup
                /\ injected \in {cash, RAdd(cash, current_monthly_topup')}]_vars

\* (C6) The current top-up starts at monthly_topup and is multiplied by
\* (1 + annual_increase/100) exactly once per calendar-year rollover between
\* consecutive rows, before the injection on the same row: the first row of
\* a new year injects the already escalated amount, and the amount is
\* unchanged on every row that is not the first row of a new year.
C6_EscalationBeforeInjection ==
    /\ [](portfolio_history = <<>> => current_monthly_topup = FromInt(monthly_topup))
    /\ [][RowStep =>
            LET newYear == data # <<>> /\ NewRow.date.year > LastRow.date.year
                injected == CashBeforeDeploy(FirstRowStep \/ NewCall.ret)
            IN  /\ current_monthly_topup' =
                       IF newYear
                       THEN RMul(current_monthly_topup,
                                 RAdd(One, RDiv(FromInt(annual_increase), FromInt(100))))
                       ELSE current_monthly_topup
                /\ newYear => injected = RAdd(cash, current_monthly_topup')]_vars

\* (C7) The value series returned has exactly one entry per row of the
\* table, with the rows' dates in the same order, and the holdings and cash
\* returned are the state after the last row: the last recorded value is
\* sum(final holdings x last-row prices) + final cash.
C7_OneEntryPerRow ==
    pc = "done"
        => /\ Len(result[1]) = Len(data)
           /\ \A i \in 1..Len(data) : result[1][i].Date = data[i].date
           /\ result[2] = holdings
           /\ result[3] = cash
           /\ result[1][Len(data)].Value
                  = RAdd(MarketValue(result[2], LastRow.prices), result[3])

\* a returned run of three rows that ends with cash not deployed
C7_Witness ==
    /\ pc = "done"
    /\ Len(data) >= 3
    /\ Len(result[1]) = Len(data)
    /\ RPositive(result[3])
    /\ \E t \in Tickers : RPositive(result[2][t])

\* (C10) With a buy-and-hold Portfolio run_backtest deploys only on the first
\* row: on every later row should_rebalance returns false, the holdings stay
\* those of the first row, and the cash only grows by the row's top-up, so
\* every top-up injected after the first row is still in cash at the end.
C10_BuyAndHoldDeploysOnce ==
    /\ [][(RowStep /\ rebalance_frequency = "None" /\ ~FirstRowStep) =>
            /\ ~NewCall.ret
            /\ holdings' = holdings
            /\ cash' \in {cash, RAdd(cash, current_monthly_topup')}
            /\ RLeq(cash, cash')]_vars
    /\ []((rebalance_frequency = "None" /\ portfolio_history # <<>>) =>
            /\ holdings = DeployHoldings([t \in Tickers |-> Zero],
                                         FromInt(initial_investment),
                                         data[1].prices, target_weights)
            /\ pc = "done" => result[3] = cash)

\* buy-and-hold over three months at moving prices: two top-ups sit in cash
\* at the end of the run
C10_Witness ==
    /\ rebalance_frequency = "None"
    /\ pc = "done"
    /\ Len(data) >= 3
    /\ monthly_topup = 100
    /\ annual_increase = 0
    /\ cash = FromInt(200)
    /\ data[1].prices # LastRow.prices

\* |sum of the weights - 1| <= 1e-5
WithinTolerance(w) ==
    LET total == RSum(w, DOMAIN w)
    IN  Abs(total[1] - total[2]) <= total[2] \div 100000

\* (C11) Constructing a Portfolio succeeds only if the weights sum to 1.0
\* within 1e-5; a mapping summing to 0.95 or 1.05, or to anything outside the
\* tolerance, is rejected with an error at construction and no Portfolio
\* object with such weights exists.
C11_ConstructionRejectsBadSum ==
    /\ ctor_outcome = "ok" => (WithinTolerance(ctor_weights) /\ target_weights = ctor_weights)
    /\ (ctor_outcome # "pending" /\ ~WithinTolerance(ctor_weights))
           => (ctor_outcome = "ValueError" /\ target_weights = <<>>)
    /\ (ctor_outcome # "pending"
            /\ RSum(ctor_weights, DOMAIN ctor_weights) \in {Rat(95, 100), Rat(105, 100)})
           => (ctor_outcome = "ValueError" /\ target_weights = <<>>)

\* a mapping summing to 0.95 was rejected
C11_Witness ==
    /\ ctor_outcome = "ValueError"
    /\ RSum(ctor_weights, DOMAIN ctor_weights) = Rat(95, 100)
    /\ target_weights = <<>>

\* a mapping summing to 1.000004 was accepted
C11_WitnessAccepted ==
    /\ ctor_outcome = "ok"
    /\ RSum(ctor_weights, DOMAIN ctor_weights) = Rat(1000004, 1000000)

\* (C12) Called with an empty return series, run_monte_carlo_simulation fails
\* with an explicit InsufficientDataError before any computation on the
\* empty data: no mean or deviation computed, no path simulated, no forecast.
C12_EmptySeriesInsufficientData ==
    historical_returns = <<>> =>
        \/ mc_pc \in {"none", "stats"}
        \/ /\ mc_pc = "raised"
           /\ mc_error = "InsufficientDataError"
           /\ simulation_results = <<>>
           /\ forecast_df = <<>>

ForecastInputs == mc_pc # "none" /\ historical_returns # <<>>

\* (C13) For every non-empty return series, projection_years >= 1 and
\* num_simulations >= 1 the call returns a forecast of exactly
\* projection_years x 252 rows, whose dates are the consecutive calendar days
\* after the last historical date, one per row in increasing order.
C13_ForecastRowsAndDates ==
    /\ ForecastInputs => mc_pc # "raised"
    /\ (ForecastInputs /\ mc_pc = "done") =>
           /\ Len(forecast_df) = projection_years * 252
           /\ \A j \in 1..Len(forecast_df) :
                  forecast_df[j].date
                      = historical_returns[Len(historical_returns)].date + j

\* a forecast of two paths returned after a series with one return only
C13_Witness ==
    /\ mc_pc = "done"
    /\ Len(historical_returns) = 1
    /\ num_simulations >= 2
    /\ Len(forecast_df) = 252
    /\ forecast_df[252].date = historical_returns[1].date + 252

AllReturnsZero ==
    /\ Len(historical_returns) >= 2
    /\ \A k \in 1..Len(historical_returns) : historical_returns[k].value = Zero

\* (C16) When every historical return is 0 (at least two returns) every path
\* stays at initial_value on every day, so the five quantile columns equal
\* initial_value on every forecast row.
C16_ZeroReturnsFlatForecast ==
    (AllReturnsZero /\ mc_pc \in {"simulate", "done"}) =>
        /\ \A i \in 1..Len(simulation_results) :
               \A j \in 1..Len(simulation_results[i]) :
                   simulation_results[i][j] = initial_value
        /\ mc_pc = "done" =>
               \A j \in 1..Len(forecast_df) :
                   /\ forecast_df[j].median = initial_value
                   /\ forecast_df[j].lower_bound_25 = initial_value
                   /\ forecast_df[j].upper_bound_75 = initial_value
                   /\ forecast_df[j].lower_bound_05 = initial_value
                   /\ forecast_df[j].upper_bound_95 = initial_value

\* a forecast of two flat paths
C16_Witness ==
    /\ AllReturnsZero
    /\ mc_pc = "done"
    /\ num_simulations >= 2
    /\ Len(forecast_df) >= 252
    /\ forecast_df[252].upper_bound_95 = initial_value

\* asset t has no price on the row: no column, or no value in the column
NoPrice(row, t) == t \notin DOMAIN row.prices \/ IsNaN(row.prices[t])

\* (C14) If an asset of the target allocation has no price in the table on a
\* simulated day, run_backtest fails on that day with a lookup error and
\* returns no value series: no entry is recorded for the day, the missing
\* price is never skipped.
C14_MissingPriceRaises ==
    \A i \in 1..Len(data) :
        (\E t \in DOMAIN target_weights : NoPrice(data[i], t))
            => /\ pc = "raised"
               /\ Len(portfolio_history) < i
               /\ result = <<>>

NonNegativeContributions ==
    initial_investment >= 0 /\ monthly_topup >= 0 /\ annual_increase >= 0

\* (C20) For every Portfolio that construction accepts, every table of
\* positive prices and non-negative initial investment, top-up and annual
\* increase, every asset's holding is non-negative after every row.
C20_HoldingsNonNegative ==
    (PositiveTable /\ NonNegativeContributions /\ pc # "raised")
        => \A t \in DOMAIN holdings : RLeq(Zero, holdings[t])

\* the calendar period that immediately follows period p
NextPeriod(freq, p) ==
    IF freq = "monthly"
        THEN IF p[2] = 12 THEN <<p[1] + 1, 1>> ELSE <<p[1], p[2] + 1>>
    ELSE IF freq = "quarterly"
        THEN IF p[2] = 4 THEN <<p[1] + 1, 1>> ELSE <<p[1], p[2] + 1>>
    ELSE <<p[1] + 1>>

\* call i is the first call or a call that returned true
PeriodOpener(log, i) == i = 1 \/ log[i].ret

\* (C15) With frequency monthly, quarterly or annually and calls in
\* non-decreasing date order, should_rebalance returns true at most once per
\* calendar period: after the first call or a call returning true for date d,
\* every later call in the calendar period of d returns false, and the first
\* call in the next period returns true (Jan-15, Jan-20, Feb-3 under monthly
\* give false, false, true).
C15_AtMostOncePerPeriod ==
    (PeriodicFrequency /\ NonDecreasing(call_log))
        => \A i \in 1..Len(call_log) : \A j \in 1..Len(call_log) :
            (PeriodOpener(call_log, i) /\ i < j)
                => LET period(k) == CalendarPeriod(rebalance_frequency, call_log[k].date)
                   IN  /\ period(j) = period(i) => ~call_log[j].ret
                       /\ ( /\ period(j) = NextPeriod(rebalance_frequency, period(i))
                            /\ \A k \in (i + 1)..(j - 1) : period(k) = period(i) )
                            => call_log[j].ret

C15_Witness ==
    /\ rebalance_frequency = "monthly"
    /\ data = <<>>
    /\ call_log = << [date |-> Date(2023, 1, 15), ret |-> FALSE],
                     [date |-> Date(2023, 1, 20), ret |-> FALSE],
                     [date |-> Date(2023, 2, 3), ret |-> TRUE] >>

\* a return observation of the table: a row after the first on which every
\* column has a price and a price the day before whose ratio has a
\* logarithm, finite or infinite (the ratio is not negative and not 0/0)
ReturnObserved(table, i) ==
    /\ i > 1
    /\ table.columns # {}
    /\ \A t \in table.columns :
        LET p == table.rows[i][t]
            q == table.rows[i - 1][t]
        IN  /\ ~IsNaN(p) /\ ~IsNaN(q)
            /\ IF q = Zero THEN RPositive(p)
               ELSE p = Zero \/ (RPositive(p) <=> RPositive(q))

ReturnObservations(table) ==
    Cardinality({i \in 1..Len(table.rows) : ReturnObserved(table, i)})

RiskReturned == report \notin {"none", "raised"}

\* (C17) With a weight for every column, generate_risk_report returns
\* (None, None), with no metric computed, whenever the table has fewer than
\* 2 rows or fewer than 2 return observations remain after differencing (so
\* also for a table of exactly 2 rows); otherwise it returns a metrics
\* mapping that is not None.
C17_NoneIffTooFewObservations ==
    (report # "none" /\ ~WeightMissing(price_data, risk_weights))
        => /\ RiskReturned
           /\ report = NoneNone
                <=> (Len(price_data.rows) < 2 \/ ReturnObservations(price_data) < 2)
           /\ Len(price_data.rows) = 2 => report = NoneNone
           /\ report # NoneNone => report = MetricsAndFigure

C17_Witness ==
    /\ report = NoneNone
    /\ Len(price_data.rows) = 2
    /\ price_data.columns = {"A", "B"}
    /\ ReturnObservations(price_data) = 1

C17_WitnessMetrics ==
    /\ report = MetricsAndFigure
    /\ Len(price_data.rows) = 3
    /\ ReturnObservations(price_data) = 2

\* the row of this step injects a top-up: it is not the first row and its
\* month is not the month of the row before (lines 40-41)
InjectionRow == last_month # 0 /\ NewRow.date.month # last_month

\* (C18) With a fresh Portfolio of frequency monthly, the rows that inject a
\* top-up are exactly the rows on which should_rebalance returns true, and
\* the cash is zero at the end of every row; with frequency quarterly or
\* annually, a top-up injected on a row that is no deployment is added to the
\* cash and stays there, no holding changing, until the next deployment.
C18_MonthlyTopupDeployedSameDay ==
    /\ [][(RowStep /\ rebalance_frequency = "monthly") =>
            /\ InjectionRow <=> NewCall.ret
            /\ cash' = Zero]_vars
    /\ []((rebalance_frequency = "monthly" /\ portfolio_history # <<>>) => cash = Zero)
    /\ [][(RowStep /\ rebalance_frequency \in {"quarterly", "annually"}
                   /\ ~FirstRowStep /\ ~NewCall.ret) =>
            /\ cash' = IF InjectionRow THEN RAdd(cash, current_monthly_topup') ELSE cash
            /\ holdings' = holdings]_vars

\* a monthly run whose last row injected a top-up and deployed it
C18_Witness ==
    /\ rebalance_frequency = "monthly"
    /\ monthly_topup > 0
    /\ Len(data) >= 2
    /\ LastRow.date.month # data[Len(data) - 1].date.month
    /\ is_rebalance_day
    /\ cash = Zero
    /\ RLeq(RAdd(FromInt(initial_investment), FromInt(monthly_topup)), total_value)

\* a quarterly run that holds two top-ups in cash
C18_WitnessQuarterly ==
    /\ rebalance_frequency = "quarterly"
    /\ monthly_topup = 100
    /\ annual_increase = 0
    /\ ~is_rebalance_day
    /\ cash = FromInt(200)

\* (C19) On a deployment day, an asset of the target allocation whose price
\* that day is not positive keeps the holding it had before the deployment,
\* every asset of the target allocation with a positive price is set to
\* total value x weight / price, and the cash is set to zero.
C19_NonPositivePriceSkipped ==
    [][(RowStep /\ pc' # "raised" /\ (FirstRowStep \/ NewCall.ret)) =>
        /\ cash' = Zero
        /\ \A t \in DOMAIN target_weights :
               IF RPositive(NewRow.prices[t])
               THEN holdings'[t] = RDiv(RMul(total_value', target_weights[t]),
                                        NewRow.prices[t])
               ELSE holdings'[t] = holdings[t]]_vars

\* a rebalance on a day when A has no positive price and B has: A keeps the
\* units bought on the first day, B is recomputed
C19_Witness ==
    /\ pc = "loop"
    /\ Len(portfolio_history) >= 2
    /\ is_rebalance_day
    /\ target_weights = ("A" :> Rat(1, 2) @@ "B" :> Rat(1, 2))
    /\ ~RPositive(LastRow.prices["A"])
    /\ RPositive(LastRow.prices["B"])
    /\ holdings["A"] = FromInt(50)
    /\ holdings["B"] = RDiv(RMul(total_value, Rat(1, 2)), LastRow.prices["B"])
    /\ cash = Zero

\* (C21) With non-negative initial investment, top-up and annual increase,
\* the cash balance is never negative on any row, is exactly zero right
\* after every deployment, and on a row that is no deployment changes only
\* by that row's top-up injection.
C21_CashNeverNegative ==
    /\ [](NonNegativeContributions => RLeq(Zero, cash))
    /\ [][(RowStep /\ pc' # "raised" /\ NonNegativeContributions) =>
            IF FirstRowStep \/ NewCall.ret
            THEN cash' = Zero /\ RLeq(Zero, CashBeforeDeploy(TRUE))
            ELSE /\ InjectionRow => cash' = RAdd(cash, current_monthly_topup')
                 /\ ~InjectionRow => cash' = cash]_vars

\* an annual run that holds two top-ups in cash after its first deployment
C21_Witness ==
    /\ rebalance_frequency = "annually"
    /\ monthly_topup = 100
    /\ annual_increase = 0
    /\ Len(portfolio_history) >= 3
    /\ ~is_rebalance_day
    /\ cash = FromInt(200)

\* the call of should_rebalance made on the first row of the second call
FirstCallOfSecondRun == call_log[Len(earlier_runs[1].data) + 1]

\* (C22) Calling run_backtest twice in succession with the same price table,
\* the same contribution parameters and the same Portfolio object, whose
\* stored last-rebalance date is left over from the first call, gives the
\* same value series, the same final holdings and the same final cash both
\* times.
C22_SameResultWhenPortfolioReused ==
    (earlier_runs # <<>>)
        => /\ \A i \in 1..Len(portfolio_history) :
                  portfolio_history[i] = earlier_runs[1].result[1][i]
           /\ pc = "done" => result = earlier_runs[1].result

\* a finished second call whose first row, unlike the first call's, had true
\* from should_rebalance
C22_Witness ==
    /\ earlier_runs # <<>>
    /\ pc = "done"
    /\ Len(result[1]) >= 3
    /\ rebalance_frequency = "monthly"
    /\ call_log[1].ret = FALSE
    /\ FirstCallOfSecondRun.ret = TRUE
    /\ last_rebalance_date = LastRow.date

====
